---- MODULE Spec2Model ----
(***************************************************************************)
(* A model of goset's Set[T]: a struct holding a reference to a Go map     *)
(* (map[T]struct{}) and a comparator.  Every method has a value receiver,  *)
(* so a call copies the struct, and the copy refers to the same map.       *)
(*                                                                         *)
(* The program state is a heap of maps and program variables holding       *)
(* struct values.  A Go program cannot observe the address of a map, so    *)
(* the heap is kept in a canonical form: a map is named by the first       *)
(* variable that refers to it, and a map no variable refers to is          *)
(* collected.                                                              *)
(***************************************************************************)
EXTENDS Integers, Sequences, FiniteSets, TLC

\* ---------------------------------------------------------------- bounds
\* Element values of the program, its variables, the arguments of one call.
MaxVal == 2
NumVars == 2
MaxArgs == 2
\* Element values of the sets the algebra specification starts from.
MaxElem == 3

Values == 1..MaxVal
Elems == 1..MaxElem
\* The program's variables, and one more that holds the result of a derivation
\* in the specifications that start from given operands.
Vars == 1..NumVars
Result == NumVars + 1
\* A third operand and a second result, for the laws over three sets.
Third == NumVars + 3
Result2 == NumVars + 4
Slots == Vars \cup {Result, Third, Result2}
Addrs == Slots
Scratch == NumVars + 2
ArgLists == UNION {[1..n -> Values] : n \in 0..MaxArgs}
ElemLists == UNION {[1..n -> Elems] : n \in 0..MaxElem}

NoComparator == "nil"
Comparators == {"cmp"}
NilMap == 0
Discard == 0
Unset == [members |-> NilMap, comparator |-> NoComparator]

\* task holds the calls in progress when two goroutines call methods on the
\* same sets; elsewhere a call is one step and no call is in progress.
VARIABLES heap, var, passed, last, task
vars == <<heap, var, passed, last, task>>

\* -------------------------------------------- the methods, on map values
\* A map[T]struct{} is the set of its keys; a slice is a sequence.
Range(l) == {l[i] : i \in DOMAIN l}

\* An Add whose loop returns after the first member.
AddFirstOnly(theSet, members) ==
    IF members = <<>> THEN theSet ELSE theSet \cup {Head(members)}

RECURSIVE Add(_, _)
Add(theSet, members) ==
    IF members = <<>> THEN theSet
    ELSE Add(theSet \cup {Head(members)}, Tail(members))

New(members) == Add({}, members)

RECURSIVE Contains(_, _)
Contains(theSet, values) ==
    IF values = <<>> THEN TRUE
    ELSE IF Head(values) \notin theSet THEN FALSE
    ELSE Contains(theSet, Tail(values))

Count(theSet) == Cardinality(theSet)

\* maps.Keys: every key once, in an order that is not specified.  The set
\* of the slices a call may return.
AsList(theSet) ==
    {l \in [1..Cardinality(theSet) -> theSet] :
        \A i, j \in DOMAIN l : i # j => l[i] # l[j]}

RECURSIVE EqualsLoop(_, _)
EqualsLoop(asList, other) ==
    IF asList = <<>> THEN TRUE
    ELSE IF ~Contains(other, <<Head(asList)>>) THEN FALSE
    ELSE EqualsLoop(Tail(asList), other)

\* An Equals without the comparison of the counts.
EqualsNoCount(theSet, other, asList) == EqualsLoop(asList, other)

\* asList is what theSet.AsList() returned.
Equals(theSet, other, asList) ==
    IF Count(theSet) # Count(other) THEN FALSE
    ELSE EqualsLoop(asList, other)

\* The loops below range over theSet.members in the order `iter`.
RECURSIVE CommonMembers(_, _, _)
CommonMembers(commonMembers, iter, other) ==
    IF iter = <<>> THEN commonMembers
    ELSE IF Contains(other, <<Head(iter)>>)
         THEN CommonMembers(Append(commonMembers, Head(iter)), Tail(iter), other)
         ELSE CommonMembers(commonMembers, Tail(iter), other)

\* An Intersect that keeps every member of the receiver.
IntersectKeepAll(iter, other) == New(iter)

Intersect(iter, other) == New(CommonMembers(<<>>, iter, other))

RECURSIVE MinusLoop(_, _, _)
MinusLoop(difference, iter, other) ==
    IF iter = <<>> THEN difference
    ELSE IF ~Contains(other, <<Head(iter)>>)
         THEN MinusLoop(Add(difference, <<Head(iter)>>), Tail(iter), other)
         ELSE MinusLoop(difference, Tail(iter), other)

\* A Minus whose test lacks the negation.
MinusMissingNot(iter, other) == New(CommonMembers(<<>>, iter, other))

Minus(iter, other) == MinusLoop(New(<<>>), iter, other)

Clone(asList) == New(asList)

\* A Union that returns the clone without adding the other set's members.
UnionCloneOnly(asList, otherAsList) == Clone(asList)

\* A Union that adds only the first member of the other set.
UnionFirstOfOther(asList, otherAsList) == AddFirstOnly(Clone(asList), otherAsList)

Union(asList, otherAsList) == Add(Clone(asList), otherAsList)

\* iter is the order Intersect ranges over its receiver's map in, asList what
\* the intersection's AsList() returned to Equals, asList2 what theSet.AsList()
\* returned to the second Equals.
\* An IsSubsetOf that compares the intersection with the argument.
IsSubsetOfOther(theSet, other, iter, asList) ==
    Equals(Intersect(iter, other), other, asList)

IsSubsetOf(theSet, other, iter, asList) ==
    Equals(Intersect(iter, other), theSet, asList)

\* An IsProperSubsetOf without the test for equality.
IsProperSubsetOfNotStrict(theSet, other, iter, asList, asList2) ==
    IsSubsetOf(theSet, other, iter, asList)

IsProperSubsetOf(theSet, other, iter, asList, asList2) ==
    IsSubsetOf(theSet, other, iter, asList) /\ ~Equals(theSet, other, asList2)

IsSupersetOf(theSet, other, iter, asList) ==
    IsSubsetOf(other, theSet, iter, asList)

IsProperSupersetOf(theSet, other, iter, asList, asList2) ==
    IsSupersetOf(theSet, other, iter, asList) /\ ~Equals(theSet, other, asList2)

\* ------------------------------------------------------------- ordering
\* A comparator returns true when a orders before b.  "cmp" orders by age, as
\* byPersonAge does: Age is the age of the person a value stands for, and two
\* persons may have the same age.  "reverse" orders the values downwards.
Orderings == Comparators \cup {"reverse"}
Age(x) == (x + 1) \div 2
Less(cmp, a, b) == IF cmp = "reverse" THEN a > b ELSE Age(a) < Age(b)

\* sort.SliceStable on a slice this short is an insertion sort: the element
\* at j moves down while it is less than the one before it.
Swap(data, i, j) == [data EXCEPT ![i] = data[j], ![j] = data[i]]
RECURSIVE SinkDown(_, _, _)
SinkDown(data, j, cmp) ==
    IF j > 1 /\ Less(cmp, data[j], data[j - 1])
    THEN SinkDown(Swap(data, j, j - 1), j - 1, cmp)
    ELSE data
RECURSIVE InsertionSort(_, _, _)
InsertionSort(data, i, cmp) ==
    IF i > Len(data) THEN data
    ELSE InsertionSort(SinkDown(data, i, cmp), i + 1, cmp)
SliceStable(asList, cmp) == InsertionSort(asList, 2, cmp)

\* The values of the list in their natural order, the smallest first.
RECURSIVE sortComparable(_)
sortComparable(asList) ==
    IF asList = <<>> THEN <<>>
    ELSE LET least == CHOOSE x \in Range(asList) : \A y \in Range(asList) : x <= y
             rest == SelectSeq(asList, LAMBDA y : y # least)
         IN  <<least>> \o sortComparable(rest)

\* An AsSortedList that returns the list as AsList() gave it.
AsSortedListUnsorted(comparator, asList) == asList
\* An AsSortedList that never uses the comparator.
AsSortedListNoComparator(comparator, asList) == sortComparable(asList)

\* asList is what theSet.AsList() returned.
AsSortedList(comparator, asList) ==
    IF comparator # NoComparator THEN SliceStable(asList, comparator)
    ELSE sortComparable(asList)

\* fmt.Sprintf("%T{", theSet) and fmt.Sprintf("%v", value) for a Set[int].
TypeTag == "goset.Set[int]"
Sprintf(value) == ToString(value)

\* The loop of String over members, from index idx (counted from 1) on.
RECURSIVE WriteMembers(_, _, _)
WriteMembers(sb, members, idx) ==
    IF idx > Len(members) THEN sb
    ELSE LET written == sb \o Sprintf(members[idx])
         IN  WriteMembers(IF idx < Len(members) THEN written \o ", " ELSE written,
                          members, idx + 1)

\* A String that writes the separator after every member.
StringTrailingSeparator(comparator, asList) ==
    LET members == AsSortedList(comparator, asList)
        Write[idx \in 1..(Len(members) + 1)] ==
            IF idx > Len(members) THEN ""
            ELSE Sprintf(members[idx]) \o ", " \o Write[idx + 1]
    IN  TypeTag \o "{" \o Write[1] \o "}"

String(comparator, asList) ==
    LET members == AsSortedList(comparator, asList)
    IN  WriteMembers(TypeTag \o "{", members, 1) \o "}"

\* ------------------------------------------------------------- the heap
IsSet(x) == var[x].members # NilMap
Members(x) == heap[var[x].members]
Passed(x) == passed[var[x].members]

\* The first variable of v that refers to the map at address a.
First(v, a) ==
    CHOOSE x \in Slots : v[x].members = a /\ \A y \in Slots : v[y].members = a => x <= y

\* The canonical form of variables v over heap h.
NormalVar(v) ==
    [x \in Slots |-> IF v[x].members = NilMap THEN v[x]
                    ELSE [v[x] EXCEPT !.members = First(v, v[x].members)]]
NormalHeap(h, v) ==
    [a \in Addrs |-> IF v[a].members # NilMap /\ First(v, v[a].members) = a
                     THEN h[v[a].members] ELSE {}]

\* A heap with a new map at the scratch address.
Alloc(h, m) == [a \in Addrs \cup {Scratch} |-> IF a = Scratch THEN m ELSE h[a]]

\* The record of a call: dst := recv.op(arg), and, for a query, its result.
\* via is the variable a later s.Add(...) statement went through.
Call(op, recv, arg, dst, result) ==
    [op |-> op, recv |-> recv, arg |-> arg, dst |-> dst, via |-> Discard,
     result |-> result]

\* No call is in progress.
NoTasks == <<>>

Init ==
    /\ heap = [a \in Addrs |-> {}]
    /\ var = [x \in Slots |-> Unset]
    /\ passed = [a \in Addrs |-> {}]
    /\ last = Call("init", 0, 0, 0, FALSE)
    /\ task = NoTasks

\* r := New(members...)
DoNew(r, members) ==
    LET v == [var EXCEPT ![r] = [members |-> Scratch, comparator |-> NoComparator]]
    IN  /\ var' = NormalVar(v)
        /\ heap' = NormalHeap(Alloc(heap, New(members)), v)
        /\ passed' = NormalHeap(Alloc(passed, Range(members)), v)
        /\ last' = Call("New", 0, 0, r, FALSE)
        /\ UNCHANGED task

\* r := NewWithComparator(cmp, members...)
DoNewWithComparator(r, cmp, members) ==
    LET v == [var EXCEPT ![r] = [members |-> Scratch, comparator |-> cmp]]
    IN  /\ var' = NormalVar(v)
        /\ heap' = NormalHeap(Alloc(heap, New(members)), v)
        /\ passed' = NormalHeap(Alloc(passed, Range(members)), v)
        /\ last' = Call("NewWithComparator", 0, 0, r, FALSE)
        /\ UNCHANGED task

\* An Add that adds to a copy of the map and returns the copy.
DoAddCopy(s, r, members) ==
    /\ IsSet(s)
    /\ LET theSet == var[s]
           a == theSet.members
           v == IF r = Discard THEN var
                ELSE [var EXCEPT ![r] = [theSet EXCEPT !.members = Scratch]]
       IN  /\ var' = NormalVar(v)
           /\ heap' = NormalHeap(Alloc(heap, Add(heap[a], members)), v)
           /\ passed' = NormalHeap(Alloc([passed EXCEPT ![a] = passed[a] \cup Range(members)],
                                         passed[a] \cup Range(members)), v)
           /\ last' = IF r = Discard THEN [last EXCEPT !.via = s]
                      ELSE Call("Add", s, 0, r, FALSE)
           /\ UNCHANGED task

\* r := s.Add(members...), or the statement s.Add(members...) when r is Discard
DoAdd(s, r, members) ==
    /\ IsSet(s)
    /\ LET theSet == var[s]
           a == theSet.members
           v == IF r = Discard THEN var ELSE [var EXCEPT ![r] = theSet]
       IN  /\ var' = NormalVar(v)
           /\ heap' = NormalHeap([heap EXCEPT ![a] = Add(heap[a], members)], v)
           /\ passed' = NormalHeap([passed EXCEPT ![a] = passed[a] \cup Range(members)], v)
           /\ last' = IF r = Discard THEN [last EXCEPT !.via = s]
                      ELSE Call("Add", s, 0, r, FALSE)
           /\ UNCHANGED task

\* A Clone that copies the struct and not the map.
DoCloneShallow(s, r) ==
    /\ IsSet(s)
    /\ LET v == [var EXCEPT ![r] = [members |-> var[s].members, comparator |-> NoComparator]]
       IN  /\ var' = NormalVar(v)
           /\ heap' = NormalHeap(heap, v)
           /\ passed' = NormalHeap(passed, v)
           /\ last' = Call("Clone", s, 0, r, FALSE)
           /\ UNCHANGED task

\* A Clone that copies the receiver's comparator into the new set.
DoCloneKeepComparator(s, r) ==
    /\ IsSet(s)
    /\ \E asList \in AsList(Members(s)) :
        LET v == [var EXCEPT ![r] = [members |-> Scratch, comparator |-> var[s].comparator]]
        IN  /\ var' = NormalVar(v)
            /\ heap' = NormalHeap(Alloc(heap, Clone(asList)), v)
            /\ passed' = NormalHeap(Alloc(passed, Range(asList)), v)
            /\ last' = Call("Clone", s, 0, r, FALSE)
            /\ UNCHANGED task

\* r := s.Clone()
DoClone(s, r) ==
    /\ IsSet(s)
    /\ \E asList \in AsList(Members(s)) :
        LET v == [var EXCEPT ![r] = [members |-> Scratch, comparator |-> NoComparator]]
        IN  /\ var' = NormalVar(v)
            /\ heap' = NormalHeap(Alloc(heap, Clone(asList)), v)
            /\ passed' = NormalHeap(Alloc(passed, Range(asList)), v)
            /\ last' = Call("Clone", s, 0, r, FALSE)
            /\ UNCHANGED task

\* A Union that adds to the receiver's map instead of a clone of it.
DoUnionInPlace(a, b, r) ==
    /\ IsSet(a) /\ IsSet(b)
    /\ \E otherAsList \in AsList(Members(b)) :
        LET m == var[a].members
            v == [var EXCEPT ![r] = [members |-> m, comparator |-> NoComparator]]
        IN  /\ var' = NormalVar(v)
            /\ heap' = NormalHeap([heap EXCEPT ![m] = Add(heap[m], otherAsList)], v)
            /\ passed' = NormalHeap([passed EXCEPT ![m] = passed[m] \cup Range(otherAsList)], v)
            /\ last' = Call("Union", a, b, r, FALSE)
            /\ UNCHANGED task

\* r := a.Union(b)
DoUnion(a, b, r) ==
    /\ IsSet(a) /\ IsSet(b)
    /\ \E asList \in AsList(Members(a)), otherAsList \in AsList(Members(b)) :
        LET v == [var EXCEPT ![r] = [members |-> Scratch, comparator |-> NoComparator]]
        IN  /\ var' = NormalVar(v)
            /\ heap' = NormalHeap(Alloc(heap, Union(asList, otherAsList)), v)
            /\ passed' = NormalHeap(Alloc(passed, Range(asList) \cup Range(otherAsList)), v)
            /\ last' = Call("Union", a, b, r, FALSE)
            /\ UNCHANGED task

\* r := a.Intersect(b)
DoIntersect(a, b, r) ==
    /\ IsSet(a) /\ IsSet(b)
    /\ \E iter \in AsList(Members(a)) :
        LET v == [var EXCEPT ![r] = [members |-> Scratch, comparator |-> NoComparator]]
        IN  /\ var' = NormalVar(v)
            /\ heap' = NormalHeap(Alloc(heap, Intersect(iter, Members(b))), v)
            /\ passed' = NormalHeap(Alloc(passed, Range(CommonMembers(<<>>, iter, Members(b)))), v)
            /\ last' = Call("Intersect", a, b, r, FALSE)
            /\ UNCHANGED task

\* r := a.Minus(b)
DoMinus(a, b, r) ==
    /\ IsSet(a) /\ IsSet(b)
    /\ \E iter \in AsList(Members(a)) :
        LET v == [var EXCEPT ![r] = [members |-> Scratch, comparator |-> NoComparator]]
        IN  /\ var' = NormalVar(v)
            /\ heap' = NormalHeap(Alloc(heap, Minus(iter, Members(b))), v)
            /\ passed' = NormalHeap(Alloc(passed, {x \in Range(iter) : x \notin Members(b)}), v)
            /\ last' = Call("Minus", a, b, r, FALSE)
            /\ UNCHANGED task

\* The queries change nothing but the record of the call.
Query(op, a, b, result) ==
    /\ last' = Call(op, a, b, Discard, result)
    /\ UNCHANGED <<heap, var, passed, task>>

\* What AsList() may return to Equals: it is not called when the counts differ.
EqualsAsList(theSet, other) ==
    IF Count(theSet) # Count(other) THEN {<<>>} ELSE AsList(theSet)
\* What AsList() may return to the Equals after the && of the proper tests:
\* it is not called when the first operand of && is false.
AndEqualsAsList(first, theSet, other) ==
    IF first THEN EqualsAsList(theSet, other) ELSE {<<>>}

\* a.Equals(b)
DoEquals(a, b) ==
    /\ IsSet(a) /\ IsSet(b)
    /\ \E asList \in EqualsAsList(Members(a), Members(b)) :
        Query("Equals", a, b, Equals(Members(a), Members(b), asList))

\* a.IsSubsetOf(b)
DoIsSubsetOf(a, b) ==
    /\ IsSet(a) /\ IsSet(b)
    /\ \E iter \in AsList(Members(a)) :
        \E asList \in EqualsAsList(Intersect(iter, Members(b)), Members(a)) :
            Query("IsSubsetOf", a, b, IsSubsetOf(Members(a), Members(b), iter, asList))

\* a.IsProperSubsetOf(b)
DoIsProperSubsetOf(a, b) ==
    /\ IsSet(a) /\ IsSet(b)
    /\ \E iter \in AsList(Members(a)) :
        \E asList \in EqualsAsList(Intersect(iter, Members(b)), Members(a)) :
        \E asList2 \in AndEqualsAsList(IsSubsetOf(Members(a), Members(b), iter, asList),
                                       Members(a), Members(b)) :
            Query("IsProperSubsetOf", a, b,
                  IsProperSubsetOf(Members(a), Members(b), iter, asList, asList2))

\* a.IsSupersetOf(b)
DoIsSupersetOf(a, b) ==
    /\ IsSet(a) /\ IsSet(b)
    /\ \E iter \in AsList(Members(b)) :
        \E asList \in EqualsAsList(Intersect(iter, Members(a)), Members(b)) :
            Query("IsSupersetOf", a, b, IsSupersetOf(Members(a), Members(b), iter, asList))

\* a.IsProperSupersetOf(b)
DoIsProperSupersetOf(a, b) ==
    /\ IsSet(a) /\ IsSet(b)
    /\ \E iter \in AsList(Members(b)) :
        \E asList \in EqualsAsList(Intersect(iter, Members(a)), Members(b)) :
        \E asList2 \in AndEqualsAsList(IsSupersetOf(Members(a), Members(b), iter, asList),
                                       Members(a), Members(b)) :
            Query("IsProperSupersetOf", a, b,
                  IsProperSupersetOf(Members(a), Members(b), iter, asList, asList2))

\* s.AsSortedList()
DoAsSortedList(s) ==
    /\ IsSet(s)
    /\ \E asList \in AsList(Members(s)) :
        Query("AsSortedList", s, 0, AsSortedList(var[s].comparator, asList))

\* s.String()
DoString(s) ==
    /\ IsSet(s)
    /\ \E asList \in AsList(Members(s)) :
        Query("String", s, 0, String(var[s].comparator, asList))

\* ------------------------------------------------- calls in progress
\* Two goroutines call methods on the same sets.  A step of a call is one
\* access to a map: a lookup, len, or one iteration of a range or of
\* maps.Keys, which takes a key of the map it has not yet visited.  A frame
\* holds the locals of a call: seen are the keys its range has visited, list
\* the slice it builds or consumes (commonMembers, the result of AsList()),
\* acc the map of the set it builds (difference, union), x the value passed to
\* Contains.  overlap records that the call took a step while the other call
\* was under way.
Goroutines == {1, 2}
Derivations == {"Clone", "Union", "Intersect", "Minus"}
Reads == {"Contains", "Count", "Equals", "AsList"}
FirstPc(op) ==
    CASE op \in {"Intersect", "Minus"} -> "range"
      [] op \in {"Union", "Clone", "AsList"} -> "keys"
      [] op = "Equals" -> "count"
      [] op = "Contains" -> "lookup"
      [] op = "Count" -> "len"
Frame(op, recv, arg, x) ==
    [op |-> op, pc |-> FirstPc(op), recv |-> recv, arg |-> arg, x |-> x,
     seen |-> {}, list |-> <<>>, acc |-> {}, result |-> FALSE, overlap |-> FALSE]
Other(g) == CHOOSE h \in Goroutines : h # g
UnderWay(g) == task[g].pc # "done" /\ task[g].pc # FirstPc(task[g].op)
\* The map of the receiver and of the argument of the call of g.
RecvMap(g) == heap[var[task[g].recv].members]
ArgMap(g) == heap[var[task[g].arg].members]
\* The call of g goes on with the frame f, or returns result.
Goes(g, f) ==
    task' = [task EXCEPT ![g] = [f EXCEPT !.overlap = @ \/ UnderWay(Other(g))]]
Returns(g, result) ==
    Goes(g, [task[g] EXCEPT !.pc = "done", !.result = result])
ReadsOnly == UNCHANGED <<heap, var, passed, last>>

\* One iteration of maps.Keys(theSet.members): AsList(), in Clone, Union and
\* Equals also.
KeysStep(g) ==
    /\ task[g].pc = "keys"
    /\ LET f == task[g]
           rest == RecvMap(g) \ Range(f.list)
       IN  IF rest # {}
           THEN \E k \in rest : Goes(g, [f EXCEPT !.list = Append(@, k)])
           ELSE CASE f.op = "AsList" -> Returns(g, f.list)
                  [] f.op = "Clone" -> Returns(g, New(f.list))
                  [] f.op = "Union" ->
                        Goes(g, [f EXCEPT !.acc = New(f.list), !.list = <<>>,
                                          !.pc = "otherKeys"])
                  [] f.op = "Equals" -> Goes(g, [f EXCEPT !.pc = "entries"])
    /\ ReadsOnly

\* One iteration of maps.Keys(other.members): other.AsList() in Union.
OtherKeysStep(g) ==
    /\ task[g].pc = "otherKeys"
    /\ LET f == task[g]
           rest == ArgMap(g) \ Range(f.list)
       IN  IF rest # {}
           THEN \E k \in rest : Goes(g, [f EXCEPT !.list = Append(@, k)])
           ELSE Goes(g, [f EXCEPT !.pc = "add"])
    /\ ReadsOnly

\* A union.Add that writes into the map of the receiver of Union.
AddStepInPlace(g) ==
    /\ task[g].pc = "add"
    /\ LET f == task[g]
       IN  IF f.list # <<>>
           THEN /\ Goes(g, [f EXCEPT !.list = Tail(@)])
                /\ heap' = [heap EXCEPT ![var[f.recv].members] = @ \cup {Head(f.list)}]
           ELSE /\ Returns(g, RecvMap(g))
                /\ heap' = heap
    /\ UNCHANGED <<var, passed, last>>

\* One iteration of union.Add(other.AsList()...): a write to the map of union.
AddStep(g) ==
    /\ task[g].pc = "add"
    /\ LET f == task[g]
       IN  IF f.list # <<>>
           THEN /\ Goes(g, [f EXCEPT !.list = Tail(@), !.acc = @ \cup {Head(f.list)}])
                /\ heap' = heap
           ELSE /\ Returns(g, f.acc)
                /\ heap' = heap
    /\ UNCHANGED <<var, passed, last>>

\* One iteration of the range over theSet.members in Intersect and Minus,
\* with its other.Contains(member); after the last, the return.
RangeStep(g) ==
    /\ task[g].pc = "range"
    /\ LET f == task[g]
           rest == RecvMap(g) \ f.seen
       IN  IF rest # {}
           THEN \E member \in rest :
                  LET visited == [f EXCEPT !.seen = @ \cup {member}]
                  IN  IF f.op = "Intersect"
                      THEN IF Contains(ArgMap(g), <<member>>)
                           THEN Goes(g, [visited EXCEPT !.list = Append(@, member)])
                           ELSE Goes(g, visited)
                      ELSE IF ~Contains(ArgMap(g), <<member>>)
                           THEN Goes(g, [visited EXCEPT !.acc = Add(@, <<member>>)])
                           ELSE Goes(g, visited)
           ELSE IF f.op = "Intersect" THEN Returns(g, New(f.list))
                ELSE Returns(g, f.acc)
    /\ ReadsOnly

\* theSet.Count() != other.Count() in Equals.
CountStep(g) ==
    /\ task[g].pc = "count"
    /\ IF Count(RecvMap(g)) # Count(ArgMap(g)) THEN Returns(g, FALSE)
       ELSE Goes(g, [task[g] EXCEPT !.pc = "keys"])
    /\ ReadsOnly

\* One iteration of the loop of Equals over asList.
EntriesStep(g) ==
    /\ task[g].pc = "entries"
    /\ LET f == task[g]
       IN  IF f.list = <<>> THEN Returns(g, TRUE)
           ELSE IF ~Contains(ArgMap(g), <<Head(f.list)>>) THEN Returns(g, FALSE)
           ELSE Goes(g, [f EXCEPT !.list = Tail(@)])
    /\ ReadsOnly

\* theSet.Contains(x)
LookupStep(g) ==
    /\ task[g].pc = "lookup"
    /\ Returns(g, Contains(RecvMap(g), <<task[g].x>>))
    /\ ReadsOnly

\* theSet.Count()
LenStep(g) ==
    /\ task[g].pc = "len"
    /\ Returns(g, Count(RecvMap(g)))
    /\ ReadsOnly

\* ------------------------------------------------------ the specifications
\* The program: any sequence of calls on its variables.
Next ==
    \/ \E r \in Vars, members \in ArgLists : DoNew(r, members)
    \/ \E r \in Vars, cmp \in Comparators, members \in ArgLists :
            DoNewWithComparator(r, cmp, members)
    \/ \E s \in Vars, r \in Vars \cup {Discard}, members \in ArgLists :
            DoAdd(s, r, members)
    \/ \E s \in Vars, r \in Vars : DoClone(s, r)
    \/ \E a \in Vars, b \in Vars, r \in Vars : DoUnion(a, b, r)
    \/ \E a \in Vars, b \in Vars, r \in Vars : DoIntersect(a, b, r)
    \/ \E a \in Vars, b \in Vars, r \in Vars : DoMinus(a, b, r)

Spec == Init /\ [][Next]_vars

\* The operands of a binary operation, the receiver and the argument, in the
\* first two variables: each holds a set built by New from one of the given
\* argument lists, and both may hold the same set (y := x.Add()).  first[x]
\* is the first variable that holds the set x holds.
Operand == {1, 2}
Operands(lists) ==
    \E first \in [Operand -> Operand], members \in [Operand -> lists] :
        /\ \A x \in Operand : first[x] <= x /\ first[first[x]] = first[x]
        /\ var = [x \in Slots |-> IF x \in Operand
                                  THEN [members |-> first[x], comparator |-> NoComparator]
                                  ELSE Unset]
        /\ heap = [a \in Addrs |-> IF a \in Operand /\ first[a] = a
                                   THEN New(members[a]) ELSE {}]
        /\ passed = [a \in Addrs |-> IF a \in Operand /\ first[a] = a
                                     THEN Range(members[a]) ELSE {}]
        /\ last = Call("init", 0, 0, 0, FALSE)
        /\ task = NoTasks

\* A derivation from the operands into the result variable, and the Add
\* statements that follow it.
InitDerive == Operands(ArgLists)

NextDerive ==
    \/ \E s \in Operand : DoClone(s, Result)
    \/ \E a \in Operand, b \in Operand : DoUnion(a, b, Result)
    \/ \E a \in Operand, b \in Operand : DoIntersect(a, b, Result)
    \/ \E a \in Operand, b \in Operand : DoMinus(a, b, Result)
    \/ \E s \in Operand \cup {Result}, members \in ArgLists : DoAdd(s, Discard, members)

SpecDerive == InitDerive /\ [][NextDerive]_vars

\* The set algebra: derivations from operands over a larger universe.
InitAlgebra == Operands(ElemLists)

NextAlgebra ==
    \/ \E s \in Operand : DoClone(s, Result)
    \/ \E a \in Operand, b \in Operand : DoUnion(a, b, Result)
    \/ \E a \in Operand, b \in Operand : DoIntersect(a, b, Result)
    \/ \E a \in Operand, b \in Operand : DoMinus(a, b, Result)

SpecAlgebra == InitAlgebra /\ [][NextAlgebra]_vars

\* One query on operands over the larger universe.  A query changes no set,
\* so a second query would start from the same operands.  NoQueryYet: no call
\* has been made on the operands.
NoQueryYet == last.op = "init"
NextQuery ==
    \/ \E a \in Operand, b \in Operand : NoQueryYet /\ DoEquals(a, b)
    \/ \E a \in Operand, b \in Operand : NoQueryYet /\ DoIsSubsetOf(a, b)
    \/ \E a \in Operand, b \in Operand : NoQueryYet /\ DoIsProperSubsetOf(a, b)
    \/ \E a \in Operand, b \in Operand : NoQueryYet /\ DoIsSupersetOf(a, b)
    \/ \E a \in Operand, b \in Operand : NoQueryYet /\ DoIsProperSupersetOf(a, b)

SpecQuery == InitAlgebra /\ [][NextQuery]_vars

\* The laws of Union over three sets A, B and C, as a caller checks them:
\*     ab := A.Union(B); ba := B.Union(A); ab.Equals(ba)
\*     abc := ab.Union(C); bc := B.Union(C); a_bc := A.Union(bc); abc.Equals(a_bc)
\* ab, bc and a_bc are held in Result, ba and abc in Result2.  Each statement
\* runs after the one before it, which the record of the last call names.
SetA == 1
SetB == 2
SetC == Third
Operand3 == {SetA, SetB, SetC}
After(op, recv, arg, dst) ==
    last.op = op /\ last.recv = recv /\ last.arg = arg /\ last.dst = dst
InitUnion ==
    \E first \in [Operand3 -> Operand3], members \in [Operand3 -> ArgLists] :
        /\ \A x \in Operand3 : first[x] <= x /\ first[first[x]] = first[x]
        /\ var = [x \in Slots |-> IF x \in Operand3
                                  THEN [members |-> first[x], comparator |-> NoComparator]
                                  ELSE Unset]
        /\ heap = [a \in Addrs |-> IF a \in Operand3 /\ first[a] = a
                                   THEN New(members[a]) ELSE {}]
        /\ passed = [a \in Addrs |-> IF a \in Operand3 /\ first[a] = a
                                     THEN Range(members[a]) ELSE {}]
        /\ last = Call("init", 0, 0, 0, FALSE)
        /\ task = NoTasks

NextUnion ==
    \/ After("init", 0, 0, 0) /\ DoUnion(SetA, SetB, Result)
    \/ After("Union", SetA, SetB, Result) /\ DoUnion(SetB, SetA, Result2)
    \/ After("Union", SetB, SetA, Result2) /\ DoEquals(Result, Result2)
    \/ After("Equals", Result, Result2, Discard) /\ DoUnion(Result, SetC, Result2)
    \/ After("Union", Result, SetC, Result2) /\ DoUnion(SetB, SetC, Result)
    \/ After("Union", SetB, SetC, Result) /\ DoUnion(SetA, Result, Result)
    \/ After("Union", SetA, Result, Result) /\ DoEquals(Result2, Result)

SpecUnion == InitUnion /\ [][NextUnion]_vars

\* Ordered enumeration: one set, built by New or by NewWithComparator, is
\* enumerated and rendered again and again, with Add statements in between.
Ordered == 1
InitOrder ==
    \E members \in ElemLists, cmp \in Orderings \cup {NoComparator} :
        /\ var = [x \in Slots |-> IF x = Ordered
                                  THEN [members |-> Ordered, comparator |-> cmp]
                                  ELSE Unset]
        /\ heap = [a \in Addrs |-> IF a = Ordered THEN New(members) ELSE {}]
        /\ passed = [a \in Addrs |-> IF a = Ordered THEN Range(members) ELSE {}]
        /\ last = Call("init", 0, 0, 0, FALSE)
        /\ task = NoTasks

NextOrder ==
    \/ DoAsSortedList(Ordered)
    \/ DoString(Ordered)
    \/ \E x \in Elems : DoAdd(Ordered, Discard, <<x>>)

SpecOrder == InitOrder /\ [][NextOrder]_vars

\* What becomes of the ordering function: the operands are built by New or by
\* NewWithComparator (two variables that hold the same set hold the same
\* ordering function), one derivation or r := s.Add(...) fills the result
\* variable, and the result is enumerated in order.
InitCarry ==
    \E first \in [Operand -> Operand], members \in [Operand -> ArgLists],
       cmp \in [Operand -> Orderings \cup {NoComparator}] :
        /\ \A x \in Operand : first[x] <= x /\ first[first[x]] = first[x]
        /\ var = [x \in Slots |-> IF x \in Operand
                                  THEN [members |-> first[x], comparator |-> cmp[first[x]]]
                                  ELSE Unset]
        /\ heap = [a \in Addrs |-> IF a \in Operand /\ first[a] = a
                                   THEN New(members[a]) ELSE {}]
        /\ passed = [a \in Addrs |-> IF a \in Operand /\ first[a] = a
                                     THEN Range(members[a]) ELSE {}]
        /\ last = Call("init", 0, 0, 0, FALSE)
        /\ task = NoTasks

NextCarry ==
    \/ \E s \in Operand : NoQueryYet /\ DoClone(s, Result)
    \/ \E a \in Operand, b \in Operand : NoQueryYet /\ DoUnion(a, b, Result)
    \/ \E a \in Operand, b \in Operand : NoQueryYet /\ DoIntersect(a, b, Result)
    \/ \E a \in Operand, b \in Operand : NoQueryYet /\ DoMinus(a, b, Result)
    \/ \E s \in Operand, members \in ArgLists : NoQueryYet /\ DoAdd(s, Result, members)
    \/ last.dst = Result /\ DoAsSortedList(Result)

SpecCarry == InitCarry /\ [][NextCarry]_vars

\* Goroutine 1 derives a set from the operands while goroutine 2 reads them
\* or derives another: the steps of the two calls interleave in every way.
\* The calls of the methods ops on one operand, with the other operand as the
\* argument (both may hold the same set).
OtherOperand(x) == CHOOSE y \in Operand : y # x
Calls(ops) ==
    {Frame(op, recv, OtherOperand(recv), x) :
        op \in ops \ {"Contains"}, recv \in Operand, x \in {0}}
        \cup {Frame(op, recv, OtherOperand(recv), x) :
                  op \in ops \cap {"Contains"}, recv \in Operand, x \in Values}
InitConcurrent ==
    /\ \E first \in [Operand -> Operand], members \in [Operand -> ArgLists] :
        /\ \A x \in Operand : first[x] <= x /\ first[first[x]] = first[x]
        /\ var = [x \in Slots |-> IF x \in Operand
                                  THEN [members |-> first[x], comparator |-> NoComparator]
                                  ELSE Unset]
        /\ heap = [a \in Addrs |-> IF a \in Operand /\ first[a] = a
                                   THEN New(members[a]) ELSE {}]
        /\ passed = [a \in Addrs |-> IF a \in Operand /\ first[a] = a
                                     THEN Range(members[a]) ELSE {}]
    /\ last = Call("init", 0, 0, 0, FALSE)
    /\ \E derivation \in {f \in Calls(Derivations) : f.recv = 1},
          call \in Calls(Derivations \cup Reads) :
        task = [g \in Goroutines |-> IF g = 1 THEN derivation ELSE call]

NextConcurrent ==
    \/ \E g \in Goroutines : KeysStep(g)
    \/ \E g \in Goroutines : OtherKeysStep(g)
    \/ \E g \in Goroutines : AddStep(g)
    \/ \E g \in Goroutines : RangeStep(g)
    \/ \E g \in Goroutines : CountStep(g)
    \/ \E g \in Goroutines : EntriesStep(g)
    \/ \E g \in Goroutines : LookupStep(g)
    \/ \E g \in Goroutines : LenStep(g)

SpecConcurrent == InitConcurrent /\ [][NextConcurrent]_vars

\* ------------------------------------------------------------ the claims
\* The members of the set variable x holds after the step.
MembersNext(x) == heap'[var'[x].members]
\* The step is the call last' records; the step is the statement s.Add(...).
IsCall == last'.via = Discard
IsAddVia(s) == last'.via = s

\* C1: after c := s.Clone(), c has exactly the elements s had at that moment,
\* and in every later sequence of Add statements an Add on c changes neither
\* the membership nor the Count of s, and an Add on s changes neither the
\* membership nor the Count of c.
CloneStep(s, c) ==
    last'.op = "Clone" /\ last'.recv = s /\ last'.dst = c /\ IsCall
        => MembersNext(c) = Members(s)
AfterClone(s, c) ==
    last'.op = "Clone" /\ last'.recv = s /\ last'.dst = c /\ s # c =>
        /\ IsAddVia(c) => MembersNext(s) = Members(s) /\ Count(MembersNext(s)) = Count(Members(s))
        /\ IsAddVia(s) => MembersNext(c) = Members(c) /\ Count(MembersNext(c)) = Count(Members(c))
C1_CloneIndependent ==
    [][\A s \in Vars, c \in Vars : CloneStep(s, c) /\ AfterClone(s, c)]_vars
\* An Add on the clone has made it differ from a non-empty original.
C1_Witness ==
    /\ last.op = "Clone" /\ last.recv # last.dst /\ last.via = last.dst
    /\ Members(last.recv) # {}
    /\ Members(last.recv) # Members(last.dst)

\* C2: the Count of a set is the number of distinct values passed so far to
\* its constructor and to Add on it (duplicates collapse); adding a value
\* that is present leaves Count unchanged, adding an absent value raises it
\* by one and makes Contains of it true; no call removes a member.
PassedNext(x) == passed'[var'[x].members]
KeepsSet(x) == IsSet(x) /\ (~IsCall \/ last'.dst # x)
AddOne(s, r, x) ==
    DoAdd(s, r, <<x>>) =>
        /\ Contains(Members(s), <<x>>) => Count(MembersNext(s)) = Count(Members(s))
        /\ ~Contains(Members(s), <<x>>) =>
              Count(MembersNext(s)) = Count(Members(s)) + 1 /\ Contains(MembersNext(s), <<x>>)
C2_CountDistinct ==
    [][\A s \in Vars :
        /\ var'[s].members # NilMap => Count(MembersNext(s)) = Cardinality(PassedNext(s))
        /\ KeepsSet(s) => \A x \in Members(s) : Contains(MembersNext(s), <<x>>)
        /\ \A r \in Vars \cup {Discard}, x \in Values : AddOne(s, r, x)]_vars
\* A set built by a constructor has had an Add statement and holds every value.
C2_Witness ==
    /\ last.op \in {"New", "NewWithComparator"} /\ last.via = last.dst
    /\ Count(Members(last.dst)) = MaxVal

\* C3: Add changes the receiver's own map and returns the receiver: after
\* r := s.Add(xs...), s contains every value passed to it, r.Equals(s) holds,
\* r and s refer to the same map, and after every later Add statement
\* through r or through s both still have the same members.
C3_AddInPlace ==
    last.op = "Add" =>
        /\ var[last.dst].members = var[last.recv].members
        /\ \A x \in Passed(last.recv) : Contains(Members(last.recv), <<x>>)
        /\ Members(last.dst) = Members(last.recv)
        /\ \A asList \in EqualsAsList(Members(last.dst), Members(last.recv)) :
              Equals(Members(last.dst), Members(last.recv), asList)
\* r := s.Add(...) into another variable, then an Add statement through r.
C3_Witness ==
    /\ last.op = "Add" /\ last.recv # last.dst /\ last.via = last.dst
    /\ Count(Members(last.recv)) = MaxVal

\* C4: Intersect, Union, Minus and Clone leave the members of the receiver
\* and of the argument unchanged, also when both are the same set, and the
\* set they return has its own map: a later Add on the result changes
\* neither input and a later Add on an input does not change the result.
Inputs == {last'.recv, last'.arg} \ {0}
C4_DerivedFresh ==
    [][last'.op \in Derivations =>
        /\ IsCall => \A x \in Inputs : MembersNext(x) = Members(x)
        /\ IsAddVia(last'.dst) => \A x \in Inputs : MembersNext(x) = Members(x)
        /\ (\E x \in Inputs : IsAddVia(x))
              => MembersNext(last'.dst) = Members(last'.dst)]_vars
\* A Union of two different sets, then an Add on the result that changed it.
C4_Witness ==
    /\ last.op = "Union" /\ last.via = last.dst
    /\ var[last.recv].members # var[last.arg].members
    /\ Members(last.recv) # Members(last.arg)
    /\ Members(last.dst) # Members(last.recv) \cup Members(last.arg)

\* The result of a derivation equals the set in x, whatever AsList() returns.
ResultEquals(x) ==
    \A asList \in EqualsAsList(Members(Result), Members(x)) :
        Equals(Members(Result), Members(x), asList)
\* The two sets have values in common and each has values the other lacks.
Overlap(a, b) ==
    /\ Members(a) \cap Members(b) # {}
    /\ Members(a) \ Members(b) # {}
    /\ Members(b) \ Members(a) # {}

\* C5: A.Union(B) contains exactly the values that are in A or in B; in
\* particular A.Union(Empty).Equals(A) and A.Union(A).Equals(A).
C5_Union ==
    last.op = "Union" =>
        /\ \A x \in Elems :
              Contains(Members(Result), <<x>>)
                <=> Contains(Members(last.recv), <<x>>) \/ Contains(Members(last.arg), <<x>>)
        /\ Count(Members(last.arg)) = 0 => ResultEquals(last.recv)
        /\ var[last.arg].members = var[last.recv].members => ResultEquals(last.recv)
C5_Witness == last.op = "Union" /\ Overlap(last.recv, last.arg)

\* C6: A.Intersect(B) contains exactly the values present in both A and B: it
\* is empty when A and B are disjoint, A.Intersect(A).Equals(A), and
\* New(1,2,3,4).Intersect(New(3,4,5,6)) has exactly the members 3 and 4.
C6_Intersect ==
    /\ last.op = "Intersect" =>
        /\ \A x \in Elems :
              Contains(Members(Result), <<x>>)
                <=> Contains(Members(last.recv), <<x>>) /\ Contains(Members(last.arg), <<x>>)
        /\ (\A x \in Elems : ~Contains(Members(last.recv), <<x>>) \/ ~Contains(Members(last.arg), <<x>>))
              => Count(Members(Result)) = 0
        /\ var[last.arg].members = var[last.recv].members => ResultEquals(last.recv)
    /\ \A iter \in AsList(New(<<1, 2, 3, 4>>)) :
        /\ Count(Intersect(iter, New(<<3, 4, 5, 6>>))) = 2
        /\ Contains(Intersect(iter, New(<<3, 4, 5, 6>>)), <<3, 4>>)
C6_Witness == last.op = "Intersect" /\ Overlap(last.recv, last.arg)

\* C7: A.Minus(B) contains exactly the values of A that are not in B (values
\* only in B never appear); in particular A.Minus(Empty).Equals(A) and
\* Empty.Minus(A).Equals(Empty).
C7_Minus ==
    last.op = "Minus" =>
        /\ \A x \in Elems :
              Contains(Members(Result), <<x>>)
                <=> Contains(Members(last.recv), <<x>>) /\ ~Contains(Members(last.arg), <<x>>)
        /\ Count(Members(last.arg)) = 0 => ResultEquals(last.recv)
        /\ Count(Members(last.recv)) = 0 => ResultEquals(last.recv)
C7_Witness == last.op = "Minus" /\ Overlap(last.recv, last.arg)

\* C8: A.Equals(B) is true iff A and B have exactly the same members, whatever
\* the order or repetition of the values they were built from; hence
\* A.Equals(B) = B.Equals(A), and two empty sets are equal.
SameMembers(a, b) ==
    /\ \A x \in Elems : Contains(a, <<x>>) <=> Contains(b, <<x>>)
    /\ Count(a) = Count(b)
C8_Equals ==
    last.op = "Equals" =>
        /\ last.result <=> SameMembers(Members(last.recv), Members(last.arg))
        /\ last.result <=> Passed(last.recv) = Passed(last.arg)
        /\ \A asList \in EqualsAsList(Members(last.arg), Members(last.recv)) :
              Equals(Members(last.arg), Members(last.recv), asList) <=> last.result
        /\ Count(Members(last.recv)) = 0 /\ Count(Members(last.arg)) = 0 => last.result
\* Two different maps with the same two or more members compare equal.  (The
\* operands are built from every argument list, in every order and with
\* repetitions; Passed is the set of the values of the list.)
C8_Witness ==
    /\ last.op = "Equals" /\ last.result
    /\ var[last.recv].members # var[last.arg].members
    /\ Count(Members(last.recv)) >= 2

\* C9: A.IsSubsetOf(B) is true iff A.Intersect(B).Equals(A), which holds iff
\* every element of A is an element of B; the empty set is a subset of every
\* set and equal sets are subsets of each other.
C9_IsSubsetOf ==
    last.op = "IsSubsetOf" =>
        LET A == Members(last.recv)
            B == Members(last.arg)
        IN  /\ last.result <=> \A x \in Elems : Contains(A, <<x>>) => Contains(B, <<x>>)
            /\ \A iter \in AsList(A) : \A asList \in EqualsAsList(Intersect(iter, B), A) :
                  last.result <=> Equals(Intersect(iter, B), A, asList)
            /\ Count(A) = 0 => last.result
            /\ SameMembers(A, B) => last.result
\* A non-empty set is found to be a subset of a different set.
C9_Witness ==
    /\ last.op = "IsSubsetOf" /\ last.result
    /\ Count(Members(last.recv)) > 0
    /\ Members(last.recv) # Members(last.arg)

\* C10: A.IsProperSubsetOf(B) iff A.IsSubsetOf(B) and not A.Equals(B);
\* A.IsSupersetOf(B) iff B.IsSubsetOf(A); A.IsProperSupersetOf(B) iff
\* B.IsProperSubsetOf(A); no set is a proper subset or a proper superset of
\* a set equal to it.
Subset(a, b) == \A x \in Elems : Contains(a, <<x>>) => Contains(b, <<x>>)
C10_ProperAndSuperset ==
    LET A == Members(last.recv)
        B == Members(last.arg)
    IN  /\ last.op = "IsProperSubsetOf" =>
            /\ last.result <=> Subset(A, B) /\ ~SameMembers(A, B)
            /\ \A iter \in AsList(A), asList2 \in EqualsAsList(A, B) :
                \A asList \in EqualsAsList(Intersect(iter, B), A) :
                  last.result <=> IsSubsetOf(A, B, iter, asList) /\ ~Equals(A, B, asList2)
            /\ SameMembers(A, B) => ~last.result
        /\ last.op = "IsSupersetOf" =>
            /\ last.result <=> Subset(B, A)
            /\ \A iter \in AsList(B) : \A asList \in EqualsAsList(Intersect(iter, A), B) :
                  last.result <=> IsSubsetOf(B, A, iter, asList)
        /\ last.op = "IsProperSupersetOf" =>
            /\ last.result <=> Subset(B, A) /\ ~SameMembers(A, B)
            /\ \A iter \in AsList(B), asList2 \in EqualsAsList(B, A) :
                \A asList \in EqualsAsList(Intersect(iter, A), B) :
                  last.result <=> IsProperSubsetOf(B, A, iter, asList, asList2)
            /\ SameMembers(A, B) => ~last.result
\* A set is found to be a proper superset of a non-empty set.
C10_Witness ==
    /\ last.op = "IsProperSupersetOf" /\ last.result
    /\ Count(Members(last.arg)) > 0

\* C11: Union is commutative and associative up to Equals: for all sets A, B
\* and C, A.Union(B).Equals(B.Union(A)) is true and
\* A.Union(B).Union(C).Equals(A.Union(B.Union(C))) is true.
C11_UnionLaws ==
    /\ After("Equals", Result, Result2, Discard) => last.result
    /\ After("Equals", Result2, Result, Discard) => last.result
\* The second comparison was made on three different sets, none of them
\* holding all the values of the union.
C11_Witness ==
    /\ After("Equals", Result2, Result, Discard)
    /\ Members(SetA) # Members(SetB) /\ Members(SetB) # Members(SetC) /\ Members(SetA) # Members(SetC)
    /\ \A x \in Operand3 : Members(x) # Members(Result)

\* The step is a call of AsSortedList that follows a call of AsSortedList on
\* the same set, with no Add statement in between.
RepeatedAsSortedList ==
    /\ last.op = "AsSortedList" /\ last.via = Discard
    /\ last'.op = "AsSortedList" /\ last'.via = Discard
    /\ last'.recv = last.recv
\* No two members of the set x holds are equivalent under its ordering
\* function: of any two, one orders before the other.
NoTies(x) ==
    \/ var[x].comparator = NoComparator
    \/ \A a \in Members(x), b \in Members(x) :
          a # b => Less(var[x].comparator, a, b) \/ Less(var[x].comparator, b, a)

\* C12 as stated: repeated calls of AsSortedList() on a set that is not
\* mutated between the calls return identical sequences, for every set, built
\* with or without an ordering function, whatever order AsList produces.
C12_AsStated ==
    [][RepeatedAsSortedList => last'.result = last.result]_vars

\* C12: repeated calls of AsSortedList() on a set that is not mutated between
\* the calls return identical sequences, whatever order AsList produces, for
\* every set built without an ordering function and for every set whose
\* ordering function reports no two of its members as equivalent.
C12_SortedListRepeatable ==
    [][RepeatedAsSortedList /\ NoTies(last.recv) => last'.result = last.result]_vars
\* AsSortedList was called on a set of three members with an ordering function
\* that reports no ties among them.
C12_Witness ==
    /\ last.op = "AsSortedList" /\ last.via = Discard
    /\ var[last.recv].comparator # NoComparator /\ NoTies(last.recv)
    /\ Count(Members(last.recv)) = MaxElem /\ Len(last.result) = MaxElem

\* (A formula on the result of a call is about the set as the call found it:
\* last.via = Discard, no Add statement has followed the call.)
\* C13: for a set built with NewWithComparator(cmp, ...), AsSortedList()
\* returns every member exactly once, ordered by cmp: for all positions i < j
\* cmp(list[j], list[i]) is false, so the first element is a cmp-minimum and
\* the last a cmp-maximum; ordered by age, the first has the minimum age and
\* the last the maximum.
C13_SortedByComparator ==
    last.op = "AsSortedList" /\ last.via = Discard
        /\ var[last.recv].comparator # NoComparator =>
        LET list == last.result
            cmp == var[last.recv].comparator
            theSet == Members(last.recv)
        IN  /\ Len(list) = Count(theSet)
            /\ \A x \in theSet : Cardinality({i \in DOMAIN list : list[i] = x}) = 1
            /\ \A i \in DOMAIN list, j \in DOMAIN list : i < j => ~Less(cmp, list[j], list[i])
            /\ list # <<>> => \A x \in theSet :
                    /\ ~Less(cmp, x, list[1])
                    /\ ~Less(cmp, list[Len(list)], x)
            /\ list # <<>> /\ cmp = "cmp" => \A x \in theSet :
                    Age(list[1]) <= Age(x) /\ Age(x) <= Age(list[Len(list)])
\* The sorted list of a set ordered by age has three members, two of the same
\* age, and is not in the natural order.
C13_Witness ==
    /\ last.op = "AsSortedList" /\ last.via = Discard
    /\ var[last.recv].comparator = "cmp"
    /\ Len(last.result) = 3
    /\ \E i \in 1..2 : Age(last.result[i]) = Age(last.result[i + 1])
    /\ last.result # sortComparable(last.result)

\* The members of a list, each followed by ", " except the last.
RECURSIVE Joined(_)
Joined(list) ==
    IF list = <<>> THEN ""
    ELSE IF Len(list) = 1 THEN ToString(list[1])
    ELSE ToString(Head(list)) \o ", " \o Joined(Tail(list))
\* What AsSortedList() may return for the set x holds.
SortedLists(x) ==
    {AsSortedList(var[x].comparator, asList) : asList \in AsList(Members(x))}
Rendered(x) == {TypeTag \o "{" \o Joined(list) \o "}" : list \in SortedLists(x)}
\* The renderings of every set built from a list of the values passed to x.
RenderedFromAnyOrder(x) ==
    UNION {{String(var[x].comparator, asList) : asList \in AsList(New(members))} :
              members \in {l \in ElemLists : Range(l) = Passed(x)}}

\* C14 as stated: String() renders the type tag, '{', the elements of
\* AsSortedList() in that order, separated by ', ' with no trailing separator,
\* and '}'; the empty set renders as the tag and '{}'; and the result depends
\* only on the members of the set, for every set.
C14_AsStated ==
    last.op = "String" /\ last.via = Discard =>
        /\ last.result \in Rendered(last.recv)
        /\ Count(Members(last.recv)) = 0 => last.result = TypeTag \o "{}"
        /\ RenderedFromAnyOrder(last.recv) = {last.result}

\* C14: String() renders the type tag, '{', the elements of AsSortedList() in
\* that order, each once, separated by ', ' with no trailing separator, and
\* '}'; the empty set renders as the tag and '{}'; and for a set without an
\* ordering function, or whose ordering function reports no two members as
\* equivalent, the result depends only on the members, not on the order they
\* were supplied or enumerated in.  New(1, 2, 3, 4) renders as in the test.
C14_String ==
    /\ last.op = "String" /\ last.via = Discard =>
        /\ last.result \in Rendered(last.recv)
        /\ Count(Members(last.recv)) = 0 => last.result = TypeTag \o "{}"
        /\ NoTies(last.recv) => RenderedFromAnyOrder(last.recv) = {last.result}
    /\ \A asList \in AsList(New(<<4, 2, 1, 3>>)) :
          String(NoComparator, asList) = "goset.Set[int]{1, 2, 3, 4}"
\* A set of three members without an ordering function has been rendered.
C14_Witness ==
    /\ last.op = "String" /\ last.via = Discard
    /\ var[last.recv].comparator = NoComparator
    /\ Count(Members(last.recv)) = MaxElem
    /\ Len(last.result) > Len(TypeTag) + 2

\* The result variable holds a set with a map of its own, which in SpecCarry
\* only a derivation gives it; or it holds the set of the operand x.
ResultDerived == IsSet(Result) /\ var[Result].members = Result
ResultIs(x) == IsSet(Result) /\ var[Result].members = var[x].members

\* C16: the ordering function is not carried over to derived sets: whatever
\* ordering function the receiver and the argument have, the set returned by
\* Clone, Union, Intersect or Minus has none, and its AsSortedList() is in the
\* default order; the set r := s.Add(...) returns has the ordering function
\* of s, and its AsSortedList() is ordered by it.
C16_ComparatorNotCarried ==
    /\ last.op \in Derivations => var[last.dst].comparator = NoComparator
    /\ last.op = "Add" => var[last.dst].comparator = var[last.recv].comparator
    /\ last.op = "AsSortedList" /\ ResultDerived =>
          /\ var[Result].comparator = NoComparator
          /\ \A i \in DOMAIN last.result, j \in DOMAIN last.result :
                i < j => last.result[i] < last.result[j]
    /\ last.op = "AsSortedList" =>
          \A x \in Operand : ResultIs(x) =>
              /\ var[Result].comparator = var[x].comparator
              /\ var[x].comparator # NoComparator =>
                    \A i \in DOMAIN last.result, j \in DOMAIN last.result :
                        i < j => ~Less(var[x].comparator, last.result[j], last.result[i])
\* A set derived from operands that both order downwards has been enumerated
\* upwards.
C16_Witness ==
    /\ last.op = "AsSortedList" /\ ResultDerived
    /\ \A x \in Operand : var[x].comparator = "reverse"
    /\ Len(last.result) = MaxVal
    /\ last.result # SliceStable(last.result, "reverse")

\* The results the call of frame f may return when it runs alone on the sets
\* of heap h and variables v.
Alone(f, h, v) ==
    LET theSet == h[v[f.recv].members]
        other == h[v[f.arg].members]
    IN  CASE f.op = "Intersect" -> {Intersect(iter, other) : iter \in AsList(theSet)}
          [] f.op = "Minus" -> {Minus(iter, other) : iter \in AsList(theSet)}
          [] f.op = "Clone" -> {Clone(asList) : asList \in AsList(theSet)}
          [] f.op = "Union" ->
                {Union(l[1], l[2]) : l \in AsList(theSet) \X AsList(other)}
          [] f.op = "Contains" -> {Contains(theSet, <<f.x>>)}
          [] f.op = "Count" -> {Count(theSet)}
          [] f.op = "Equals" ->
                {Equals(theSet, other, asList) : asList \in EqualsAsList(theSet, other)}
          [] f.op = "AsList" -> AsList(theSet)

\* C15: a running Intersect, Union, Minus or Clone writes neither to the map
\* of its receiver nor to the map of its argument, and a read (Contains,
\* Count, Equals, AsList) or another derivation on the same sets, interleaved
\* with it at any point, returns a result it may return when run alone, as
\* does the derivation.
C15_ConcurrentReads ==
    [][/\ \A x \in Operand : MembersNext(x) = Members(x)
       /\ \A g \in Goroutines :
            task'[g].pc = "done" => task'[g].result \in Alone(task'[g], heap', var')]_vars
\* A Union and an Equals on two different sets with values in common have
\* both returned, each having taken steps while the other was under way.
C15_Witness ==
    /\ DOMAIN task = Goroutines
    /\ \A g \in Goroutines : task[g].pc = "done" /\ task[g].overlap
    /\ task[1].op = "Union" /\ task[2].op = "Equals"
    /\ var[1].members # var[2].members
    /\ Members(1) \cap Members(2) # {}
====
